---- MODULE Spec2Model ----
(***************************************************************************)
(* A model of lighthouse's display.c: the scroll window recomputed by      *)
(* draw_result_text, the window resize and the order of the paint calls of *)
(* one redraw, the image fitter (get_new_size / draw_png / draw_image) and *)
(* the draw mutex held by the three paint operations.                      *)
(*                                                                         *)
(* The fields of global and settings are declared in globals.h; they are   *)
(* taken as uint32_t, like the locals they are combined with (line 580).   *)
(* uint32_t values are naturals below UINT_MOD.  TLC's integers are 32 bit *)
(* signed, so the word is modelled 16 bits wide; every quantity of the     *)
(* model is far below either width, and a wrapped result is larger than    *)
(* every unwrapped one in both.                                            *)
(***************************************************************************)
EXTENDS Integers, Sequences, FiniteSets, TLC

(* ---------------------------------------------------------------- bounds *)
\* Largest result count, highlight and offset the environment sets.
MaxCount == 10
\* Largest natural width and height of an image file, and largest available
\* width and height handed to draw_image.
MaxNaturalW == 4
MaxNaturalH == 23
MaxAvailW == 4
MaxAvailH == 7
\* Threads calling redraw_all at once, rows one of them paints, and draw
\* commands in one text.
NThreads == 2
MaxRows == 2
MaxTokens == 2
\* The values of settings.height (row height in pixels) explored.
RowHeights == {1, 2}
\* Largest settings.max_height (window height cap in pixels).
MaxWindowHeight == 12
\* settings.width and settings.desc_size of the configurations explored.
MainWidth == 4
DescSize == 2
\* Largest number of modifiers a run carries, largest data_length and measured
\* advance of a run, largest horizontal offset and remaining width handed to
\* draw_text.
MaxModifiers == 3
MaxDataLength == 4
MaxAdvance == 2
MaxOffsetX == 3
MaxLineWidth == 6
\* Paint calls in a row, and draw commands in one painted text.
MaxPaints == 2
MaxCmds == 2
\* The values of settings.desc_size and settings.desc_font_size explored
\* while painting, the rows painted, and the modifiers, data_length and
\* measured advance of the runs painted.
PanelSizes == {3}
DescFontSizes == {1, 4}
PaintLines == {0, 1}
PaintModifierArrays ==
  {<<>>, <<"NONE">>, <<"CENTER">>, <<"BOLD">>, <<"CENTER", "BOLD">>}
PaintLengths == {0, 2}
PaintAdvances == {0, 1, 2}

UINT_MOD == 2 ^ 16

\* uint32_t arithmetic: the result of + - * on unsigned operands.
U32(x) == x % UINT_MOD

\* #define min(a,b) ((a) < (b) ? (a) : (b))
min(a, b) == IF a < b THEN a ELSE b

VARIABLES
  settings,          \* settings.height, .max_height, .width, .desc_size, .auto_center
  result_count,      \* global.result_count
  result_highlight,  \* global.result_highlight
  result_offset,     \* global.result_offset
  display_results,   \* draw_result_text's local display_results when it returned
                     \* (0 while no draw_result_text has run since the last change)
  calls,             \* the calls on surface and window made by the last operation
  op,                \* the operation that ran last
  path               \* what the last draw_result_text did: whether line 577
                     \* ran, which arm of lines 583-598, whether the offset
                     \* changed, and the results array it was given
                     \* (history, never read by an action)

VARIABLES
  backend,           \* the image backend compiled in: "gdk", or "png" (NO_GDK)
  image,             \* the file charac->data names, as draw_image finds it
  win_size,          \* draw_image's win_size_x, win_size_y
  format,            \* the image_format_t draw_image returned
  fit_pc             \* "ready" before the call of draw_image, "done" after

fitVars == <<backend, image, win_size, format, fit_pc>>

VARIABLES
  draw_mutex,        \* global.draw_mutex: 0 when unlocked, else the thread holding it
  tpc,               \* where each thread stands in redraw_all
  rows_left,         \* per thread, the iterations left of the row loop (line 624)
  toks               \* per thread, the draw commands left in the text being painted

mutexVars == <<draw_mutex, tpc, rows_left, toks>>

scrollVars ==
  <<settings, result_count, result_highlight, result_offset, display_results,
    calls, op, path>>

VARIABLES
  text_build,        \* the text backend compiled in: "pango", or "cairo" (NO_PANGO)
  charac,            \* the draw_t handed to draw_text
  line_width,        \* draw_text's line_width
  text_offset,       \* offset->x when draw_text is called
  text_drawn,        \* offset->x at cairo_move_to, the value returned and the
                     \* weight the text was shown with
  text_pc            \* "ready" before the call of draw_text, "drawn" after

textVars ==
  <<text_build, charac, line_width, text_offset, text_drawn, text_pc>>

VARIABLES
  global_real,       \* global.real_font_size, global.real_desc_font_size
  paint_pc,          \* the paint running: "draw_line" or "draw_desc" while in
                     \* the loop of lines 435-466 or 508-561, else "idle"
  paint_offset,      \* the paint's local offset_t
  raw,               \* offset after the switch of the last command, before
                     \* the check of lines 555-560 (history)
  ncmd,              \* draw commands the running paint has processed
  held,              \* allocations made and not released, by kind
  paint_calls        \* paint calls started

paintVars ==
  <<global_real, paint_pc, paint_offset, raw, ncmd, held, paint_calls>>

vars == <<scrollVars, fitVars, mutexVars, textVars, paintVars>>

(* ------------------------------------------------- draw_result_text *)

NoPath ==
  [clamped |-> FALSE, branch |-> "none", moved |-> FALSE,
   results |-> [desc |-> "none", action |-> "all"]]

\* The configurations: row height is positive (it is a divisor at line 580).
Settings ==
  [height : RowHeights, max_height : 0..MaxWindowHeight,
   width : {MainWidth}, desc_size : {DescSize}, auto_center : BOOLEAN]

\* The results arrays handed to draw_result_text: which records carry a
\* description (desc != NULL) and which an action (a record without one is a
\* title row).  Index i of the C array is element i of the function.
ResultArrays ==
  { [desc |-> "none", action |-> "all"],
    [desc |-> "all", action |-> "title_first"],
    [desc |-> "first", action |-> "all"] }

HasDesc(results, i) ==
  \/ results.desc = "all"
  \/ results.desc = "first" /\ i = 0

HasAction(results, i) ==
  \/ results.action = "all"
  \/ results.action = "title_first" /\ i # 0

\* Mutant: the clamp stops one past the last record.
ClampHighlight_OffByOne(count, highlight) ==
  IF count < highlight THEN count ELSE highlight

\* Lines 576-578: the highlight is clamped when the result set shrank.
ClampHighlight(count, highlight) ==
  IF U32(count - 1) < highlight THEN U32(count - 1) ELSE highlight

\* Line 580.
MaxResults(s) == U32((s.max_height \div s.height) - 1)

\* Mutant: the arm of lines 588-590, which pulls a stale offset back to the
\* tail of the list, is missing.
ScrollRecompute_NoAdjust(count, highlight, offset, max_results) ==
  LET display == min(count, max_results) IN
  IF count <= max_results
    THEN [offset |-> 0, display |-> display, branch |-> "reset"]
  ELSE IF U32(offset + display) < U32(highlight + 1)
    THEN LET o == U32(highlight - U32(display - 1)) IN
         [offset |-> o, display |-> U32(count - o), branch |-> "down"]
  ELSE IF offset > highlight
    THEN [offset |-> highlight, display |-> display, branch |-> "up"]
  ELSE [offset |-> offset, display |-> display, branch |-> "keep"]

\* Mutant: the arm of lines 583-587 resets the offset of an empty result set
\* only.
ScrollRecompute_ResetOnlyEmpty(count, highlight, offset, max_results) ==
  LET display == min(count, max_results) IN
  IF count = 0
    THEN [offset |-> 0, display |-> display, branch |-> "reset"]
  ELSE IF U32(count - max_results) < offset
    THEN [offset |-> U32(count - max_results), display |-> display,
          branch |-> "adjust"]
  ELSE IF U32(offset + display) < U32(highlight + 1)
    THEN LET o == U32(highlight - U32(display - 1)) IN
         [offset |-> o, display |-> U32(count - o), branch |-> "down"]
  ELSE IF offset > highlight
    THEN [offset |-> highlight, display |-> display, branch |-> "up"]
  ELSE [offset |-> offset, display |-> display, branch |-> "keep"]

\* Lines 581-598: the new offset and the number of rows to paint.
ScrollRecompute(count, highlight, offset, max_results) ==
  LET display == min(count, max_results) IN
  IF count <= max_results
    THEN [offset |-> 0, display |-> display, branch |-> "reset"]
  ELSE IF U32(count - max_results) < offset
    THEN [offset |-> U32(count - max_results), display |-> display,
          branch |-> "adjust"]
  ELSE IF U32(offset + display) < U32(highlight + 1)
    THEN LET o == U32(highlight - U32(display - 1)) IN
         [offset |-> o, display |-> U32(count - o), branch |-> "down"]
  ELSE IF offset > highlight
    THEN [offset |-> highlight, display |-> display, branch |-> "up"]
  ELSE [offset |-> offset, display |-> display, branch |-> "keep"]

\* Lines 600-601: the side panel is shown.
ShowDesc(count, highlight, results) ==
  highlight < count /\ HasDesc(results, highlight)

\* Mutant: the window is sized for the result rows only, without the query row.
ResizeCalls_NoQueryRow(s, count, highlight, results) ==
  LET new_height == min(U32(s.height * count), s.max_height) IN
  IF ShowDesc(count, highlight, results)
    THEN <<[call |-> "xcb_configure_window_wh",
            width |-> U32(s.width + s.desc_size), height |-> new_height],
           [call |-> "cairo_xcb_surface_set_size",
            width |-> U32(s.width + s.desc_size), height |-> new_height],
           [call |-> "draw_desc", index |-> highlight]>>
    ELSE <<[call |-> "xcb_configure_window_wh",
            width |-> s.width, height |-> new_height],
           [call |-> "cairo_xcb_surface_set_size",
            width |-> s.width, height |-> new_height]>>

\* Lines 600-622: reposition (when auto-centering), resize of window and
\* surface, and the description panel paint.
ResizeCalls(s, count, highlight, results) ==
  LET new_height == min(U32(s.height * U32(count + 1)), s.max_height) IN
  IF ShowDesc(count, highlight, results)
    THEN (IF s.auto_center
            THEN <<[call |-> "xcb_configure_window_xy", x |-> "win_x_pos_with_desc"]>>
            ELSE <<>>)
         \o <<[call |-> "xcb_configure_window_wh",
               width |-> U32(s.width + s.desc_size), height |-> new_height],
              [call |-> "cairo_xcb_surface_set_size",
               width |-> U32(s.width + s.desc_size), height |-> new_height],
              [call |-> "draw_desc", index |-> highlight]>>
    ELSE (IF s.auto_center
            THEN <<[call |-> "xcb_configure_window_xy", x |-> "win_x_pos"]>>
            ELSE <<>>)
         \o <<[call |-> "xcb_configure_window_wh",
               width |-> s.width, height |-> new_height],
              [call |-> "cairo_xcb_surface_set_size",
               width |-> s.width, height |-> new_height]>>

\* Lines 625-633: the colours a row is painted in.
RowColors(index, highlight, results) ==
  IF ~HasAction(results, index) THEN "result"
  ELSE IF index # highlight THEN "result"
  ELSE "highlight"

\* Mutant: the row loop walks the window from its last record to its first.
RowCalls_BottomUp(offset, display, highlight, results) ==
  [k \in 1..display |->
     [call |-> "draw_line", index |-> U32(offset + display - k), line |-> k,
      colors |-> RowColors(U32(offset + display - k), highlight, results)]]

\* Lines 624-634: the row loop, index = offset .. offset + display - 1, line
\* counting from 1.
RowCalls(offset, display, highlight, results) ==
  [k \in 1..display |->
     [call |-> "draw_line", index |-> U32(offset + k - 1), line |-> k,
      colors |-> RowColors(U32(offset + k - 1), highlight, results)]]

\* Lines 635-636.
FlushCalls ==
  <<[call |-> "cairo_surface_flush"], [call |-> "xcb_flush"]>>

\* Lines 569-572: draw_query_text paints row 0 and flushes the surface.
QueryCalls ==
  <<[call |-> "draw_typed_line", line |-> 0], [call |-> "cairo_surface_flush"]>>

\* Lines 574-637: the whole of draw_result_text, after the calls in `before`.
DrawResultTextBody(results, before, name) ==
  LET highlight == ClampHighlight(result_count, result_highlight)
      scroll == ScrollRecompute(result_count, highlight, result_offset,
                                MaxResults(settings))
  IN /\ result_highlight' = highlight
     /\ result_offset' = scroll.offset
     /\ display_results' = scroll.display
     /\ calls' = before
                 \o ResizeCalls(settings, result_count, highlight, results)
                 \o RowCalls(scroll.offset, scroll.display, highlight, results)
                 \o FlushCalls
     /\ op' = name
     /\ path' = [clamped |-> highlight # result_highlight,
                  branch |-> scroll.branch,
                  moved |-> scroll.offset # result_offset,
                  results |-> results]
     /\ UNCHANGED <<settings, result_count>>

\* draw_result_text called on its own.
DrawResultText ==
  \E results \in ResultArrays :
    DrawResultTextBody(results, <<>>, "draw_result_text")

\* Lines 639-642: redraw_all.
RedrawAll ==
  \E results \in ResultArrays :
    DrawResultTextBody(results, QueryCalls, "redraw_all")

\* Lines 569-572: draw_query_text called on its own.
DrawQueryText ==
  /\ calls' = QueryCalls
  /\ op' = "draw_query_text"
  /\ UNCHANGED <<settings, result_count, result_highlight, result_offset,
                 display_results, path>>

\* The rest of the program, between two draws: a new result set arrives, the
\* selection moves, the offset is whatever an earlier query left.
SetCount ==
  \E c \in 0..MaxCount :
    /\ result_count' = c
    /\ calls' = <<>>
    /\ op' = "set"
    /\ display_results' = 0
    /\ path' = NoPath
    /\ UNCHANGED <<settings, result_highlight, result_offset>>

SetHighlight ==
  \E h \in 0..MaxCount :
    /\ result_highlight' = h
    /\ calls' = <<>>
    /\ op' = "set"
    /\ display_results' = 0
    /\ path' = NoPath
    /\ UNCHANGED <<settings, result_count, result_offset>>

SetOffset ==
  \E o \in 0..MaxCount :
    /\ result_offset' = o
    /\ calls' = <<>>
    /\ op' = "set"
    /\ display_results' = 0
    /\ path' = NoPath
    /\ UNCHANGED <<settings, result_count, result_highlight>>


(* ------------------------------------------------------- image fitter *)
(* Single-precision arithmetic.  A float is [m, e] standing for m * 2^-e,   *)
(* with 2^23 <= m < 2^24, or m = 0 for zero.  The integers of the model are *)
(* exact as floats; division and multiplication round to nearest, ties to   *)
(* even, and the conversion back to uint32_t truncates.                     *)

RoundNearestEven(num, den) ==
  LET q == num \div den
      r == num % den
  IN IF 2 * r > den \/ (2 * r = den /\ q % 2 = 1) THEN q + 1 ELSE q

RECURSIVE ScaleUp(_, _, _)
\* The least k with a * 2^k >= b * 2^23.
ScaleUp(a, b, k) ==
  IF a * (2 ^ k) < b * (2 ^ 23) THEN ScaleUp(a, b, k + 1) ELSE k

RECURSIVE ScaleDown(_, _)
\* The least s with p < 2^(24 + s).
ScaleDown(p, s) ==
  IF p >= 2 ^ (24 + s) THEN ScaleDown(p, s + 1) ELSE s

\* (float)a / b of lines 212-213 and 326-327, for uint32_t a and b >= 1.
FloatDiv(a, b) ==
  IF a = 0 THEN [m |-> 0, e |-> 0]
  ELSE LET k == ScaleUp(a, b, 0)
           q == RoundNearestEven(a * (2 ^ k), b)
       IN IF q = 2 ^ 24 THEN [m |-> 2 ^ 23, e |-> k - 1] ELSE [m |-> q, e |-> k]

\* x < y on floats.
FloatLess(x, y) ==
  IF x.m = 0 THEN y.m > 0
  ELSE IF y.m = 0 THEN FALSE
  ELSE x.e > y.e \/ (x.e = y.e /\ x.m < y.m)

\* min(x, y) of line 15 on floats.
FloatMin(x, y) == IF FloatLess(x, y) THEN x ELSE y

\* prop * n of lines 215-216 and 330-331, stored in a uint32_t: the product
\* rounded to single precision, then truncated.
FloatMulToUint(x, n) ==
  LET p == x.m * n
      s == ScaleDown(p, 0)
      m == RoundNearestEven(p, 2 ^ s)
  IN IF s >= x.e THEN m * (2 ^ (s - x.e)) ELSE m \div (2 ^ (x.e - s))

\* Mutant: the larger of the two proportions is taken.
get_new_size_max(width, height, win_size_x, win_size_y, fmt) ==
  IF width > win_size_x \/ height > win_size_y
    THEN LET a == FloatDiv(win_size_x, width)
             b == FloatDiv(win_size_y, height)
             prop == IF FloatLess(a, b) THEN b ELSE a
         IN [width |-> FloatMulToUint(prop, width),
             height |-> FloatMulToUint(prop, height)]
    ELSE fmt

\* Lines 209-220: get_new_size writes *format only for an oversized picture.
get_new_size(width, height, win_size_x, win_size_y, fmt) ==
  IF width > win_size_x \/ height > win_size_y
    THEN LET prop == FloatMin(FloatDiv(win_size_x, width),
                              FloatDiv(win_size_y, height))
         IN [width |-> FloatMulToUint(prop, width),
             height |-> FloatMulToUint(prop, height)]
    ELSE fmt

\* Lines 233-264: draw_image_with_gdk returns early when the file does not
\* decode, and otherwise leaves in *format what get_new_size left there.
draw_image_with_gdk(img, win_size_x, win_size_y, fmt) ==
  IF ~img.decodes THEN fmt
  ELSE get_new_size(img.width, img.height, win_size_x, win_size_y, fmt)

\* Lines 305-341: draw_png stores the surface's size (0 x 0 for the error
\* surface of a file that does not decode) and scales an oversized picture.
draw_png(img, win_size_x, win_size_y, fmt) ==
  LET natural == IF img.decodes
                   THEN [width |-> img.width, height |-> img.height]
                   ELSE [width |-> 0, height |-> 0]
  IN get_new_size(natural.width, natural.height, win_size_x, win_size_y,
                  natural)

\* Lines 354-398: draw_image.
draw_image(build, img, win_size_x, win_size_y) ==
  LET fmt == [width |-> 0, height |-> 0] IN
  IF ~img.exists THEN fmt
  ELSE IF build = "gdk"
    THEN IF img.magic \in {137, 255, 47}
           THEN draw_image_with_gdk(img, win_size_x, win_size_y, fmt)
           ELSE fmt
    ELSE IF img.magic = 137
           THEN draw_png(img, win_size_x, win_size_y, fmt)
           ELSE fmt

\* The files draw_image may be pointed at: missing, or present with a first
\* byte, decodable or not, and a natural size.
ImageFiles ==
  [exists : {TRUE}, magic : {137, 255, 47, 0}, decodes : BOOLEAN,
   width : 1..MaxNaturalW, height : 1..MaxNaturalH]
  \cup [exists : {FALSE}, magic : {0}, decodes : {FALSE},
        width : {1}, height : {1}]

NoFormat == [width |-> 0, height |-> 0]

FitIdle ==
  /\ backend = "gdk"
  /\ image = [exists |-> FALSE, magic |-> 0, decodes |-> FALSE,
              width |-> 1, height |-> 1]
  /\ win_size = [x |-> 0, y |-> 0]
  /\ format = NoFormat
  /\ fit_pc = "ready"

\* One call of draw_image.
DrawImage ==
  /\ fit_pc = "ready"
  /\ format' = draw_image(backend, image, win_size.x, win_size.y)
  /\ fit_pc' = "done"
  /\ UNCHANGED <<backend, image, win_size>>
  /\ UNCHANGED <<scrollVars, mutexVars, textVars, paintVars>>


(* ---------------------------------------------------------- draw mutex *)
(* Threads running redraw_all side by side.  A paint operation is entered   *)
(* through pthread_mutex_lock, which blocks while another thread holds the  *)
(* mutex.  The recompute of lines 575-598 reads and writes the globals      *)
(* outside the mutex, so under concurrency the number of rows a thread goes *)
(* on to paint, and whether it paints the panel, may be anything.           *)

Threads == 1..NThreads

\* A thread is inside a paint operation, between its lock and its unlock.
PaintPcs == {"typed_paint", "desc_paint", "line_paint"}
\* A thread is about to call pthread_mutex_lock.
LockPcs == {"typed_lock", "desc_lock", "line_lock"}

\* Where a thread goes once a row or the panel is painted (line 624).
AfterPaint(n) == IF n > 0 THEN "line_lock" ELSE "flush"

\* Line 640: redraw_all is called and reaches draw_typed_line.
StartRedraw(t) ==
  /\ tpc[t] = "idle"
  /\ tpc' = [tpc EXCEPT ![t] = "typed_lock"]
  /\ UNCHANGED <<draw_mutex, rows_left, toks>>

\* Line 54.
TypedLineLock(t) ==
  /\ tpc[t] = "typed_lock"
  /\ draw_mutex = 0
  /\ draw_mutex' = t
  /\ tpc' = [tpc EXCEPT ![t] = "typed_paint"]
  /\ UNCHANGED <<rows_left, toks>>

\* Lines 56-105: background, text and cursor, then the unlock.
TypedLineUnlock(t) ==
  /\ tpc[t] = "typed_paint"
  /\ draw_mutex' = 0
  /\ tpc' = [tpc EXCEPT ![t] = "recompute"]
  /\ UNCHANGED <<rows_left, toks>>

\* Lines 571-622: the flush of draw_query_text, then the recompute and resize
\* of draw_result_text up to its first paint.
Recompute(t) ==
  /\ tpc[t] = "recompute"
  /\ \E desc \in BOOLEAN, n \in 0..MaxRows :
       /\ rows_left' = [rows_left EXCEPT ![t] = n]
       /\ tpc' = [tpc EXCEPT ![t] = IF desc THEN "desc_lock" ELSE AfterPaint(n)]
  /\ UNCHANGED <<draw_mutex, toks>>

\* Line 483.
DescLock(t) ==
  /\ tpc[t] = "desc_lock"
  /\ draw_mutex = 0
  /\ draw_mutex' = t
  /\ tpc' = [tpc EXCEPT ![t] = "desc_paint"]
  /\ \E n \in 0..MaxTokens : toks' = [toks EXCEPT ![t] = n]
  /\ UNCHANGED rows_left

\* Lines 508-561: one draw command of the description.
DescToken(t) ==
  /\ tpc[t] = "desc_paint"
  /\ toks[t] > 0
  /\ toks' = [toks EXCEPT ![t] = toks[t] - 1]
  /\ UNCHANGED <<draw_mutex, tpc, rows_left>>

\* Lines 562-566: the text is exhausted.
DescUnlock(t) ==
  /\ tpc[t] = "desc_paint"
  /\ toks[t] = 0
  /\ draw_mutex' = 0
  /\ tpc' = [tpc EXCEPT ![t] = AfterPaint(rows_left[t])]
  /\ UNCHANGED <<rows_left, toks>>

\* Line 410.
LineLock(t) ==
  /\ tpc[t] = "line_lock"
  /\ draw_mutex = 0
  /\ draw_mutex' = t
  /\ tpc' = [tpc EXCEPT ![t] = "line_paint"]
  /\ \E n \in 0..MaxTokens : toks' = [toks EXCEPT ![t] = n]
  /\ UNCHANGED rows_left

\* Lines 435-466: one draw command of the row, with d.data != NULL.
LineToken(t) ==
  /\ tpc[t] = "line_paint"
  /\ toks[t] > 0
  /\ toks' = [toks EXCEPT ![t] = toks[t] - 1]
  /\ UNCHANGED <<draw_mutex, tpc, rows_left>>

\* Mutant: the early break leaves the function without the unlock.
LineBreak_NoUnlock(t) ==
  /\ tpc[t] = "line_paint"
  /\ toks[t] > 0
  /\ toks' = [toks EXCEPT ![t] = 0]
  /\ rows_left' = [rows_left EXCEPT ![t] = rows_left[t] - 1]
  /\ tpc' = [tpc EXCEPT ![t] = AfterPaint(rows_left[t] - 1)]
  /\ UNCHANGED draw_mutex

\* Lines 442-443, 467-471: parse_result_line returns d.data == NULL, the loop
\* breaks, and the function ends through the free and the unlock.
LineBreak(t) ==
  /\ tpc[t] = "line_paint"
  /\ toks[t] > 0
  /\ toks' = [toks EXCEPT ![t] = 0]
  /\ draw_mutex' = 0
  /\ rows_left' = [rows_left EXCEPT ![t] = rows_left[t] - 1]
  /\ tpc' = [tpc EXCEPT ![t] = AfterPaint(rows_left[t] - 1)]

\* Lines 435, 467-471: the text is exhausted.
LineUnlock(t) ==
  /\ tpc[t] = "line_paint"
  /\ toks[t] = 0
  /\ draw_mutex' = 0
  /\ rows_left' = [rows_left EXCEPT ![t] = rows_left[t] - 1]
  /\ tpc' = [tpc EXCEPT ![t] = AfterPaint(rows_left[t] - 1)]
  /\ UNCHANGED toks

\* Lines 635-636: the flush ends the redraw.
Flush(t) ==
  /\ tpc[t] = "flush"
  /\ tpc' = [tpc EXCEPT ![t] = "idle"]
  /\ UNCHANGED <<draw_mutex, rows_left, toks>>

\* A step of a redraw under way.
Paint(t) ==
  \/ TypedLineLock(t)
  \/ TypedLineUnlock(t)
  \/ Recompute(t)
  \/ DescLock(t)
  \/ DescToken(t)
  \/ DescUnlock(t)
  \/ LineLock(t)
  \/ LineToken(t)
  \/ LineBreak(t)
  \/ LineUnlock(t)
  \/ Flush(t)

MutexIdle ==
  /\ draw_mutex = 0
  /\ tpc = [t \in Threads |-> "idle"]
  /\ rows_left = [t \in Threads |-> 0]
  /\ toks = [t \in Threads |-> 0]

(* ----------------------------------------------------------- draw_text *)

\* modifier_type_t.
Modifiers == {"NONE", "CENTER", "BOLD"}

\* The modifiers_array of a run, of modifiers_array_length 0..n.
ModifierArrays(n) == UNION {[1..k -> Modifiers] : k \in 0..n}

RECURSIVE ApplyCenter(_, _, _, _, _, _)
\* The loops of lines 123-135 (pango) and 172-185 (cairo) from index i on:
\* every CENTER of the array adds to offset->x, in uint32_t arithmetic.
ApplyCenter(build, mods, i, width, data_length, x) ==
  IF i > Len(mods) THEN x
  ELSE IF mods[i] = "CENTER"
    THEN IF build = "pango"
           THEN ApplyCenter(build, mods, i + 1, width, data_length,
                            U32(x + U32(width - data_length) \div 2))
           ELSE ApplyCenter(build, mods, i + 1, width, data_length,
                            U32(x + U32(width - x - data_length) \div 2))
    ELSE ApplyCenter(build, mods, i + 1, width, data_length, x)

\* Lines 121-156 and 169-195: draw_text moves offset->x for the CENTERs of
\* the run, shows the text there with the weight a BOLD selects, and returns
\* the advance the backend measures.
draw_text(build, d, width, x) ==
  [x |-> ApplyCenter(build, d.modifiers_array, 1, width, d.data_length, x),
   weight |-> IF \E k \in 1..Len(d.modifiers_array) :
                   d.modifiers_array[k] = "BOLD"
                THEN "bold" ELSE "normal",
   ret |-> d.advance]

\* The text runs parse_result_line hands out: their modifiers, the
\* data_length it stored and the advance the backend measures for the data.
TextRuns(n, len, adv) ==
  [type : {"DRAW_TEXT"}, modifiers_array : ModifierArrays(n),
   data_length : 0..len, advance : 0..adv]

NoRun ==
  [type |-> "DRAW_TEXT", modifiers_array |-> <<>>, data_length |-> 0,
   advance |-> 0]

NoDrawn == [x |-> 0, weight |-> "normal", ret |-> 0]

TextIdle ==
  /\ text_build = "pango"
  /\ charac = NoRun
  /\ line_width = 0
  /\ text_offset = 0
  /\ text_drawn = NoDrawn
  /\ text_pc = "ready"

\* One call of draw_text.
DrawText ==
  /\ text_pc = "ready"
  /\ text_drawn' = draw_text(text_build, charac, line_width, text_offset)
  /\ text_pc' = "drawn"
  /\ UNCHANGED <<text_build, charac, line_width, text_offset>>
  /\ UNCHANGED <<scrollVars, fitVars, mutexVars, paintVars>>

(* ------------------------------------------------- draw_line, draw_desc *)

\* The settings and globals the paints read.
PaintSettings ==
  [height : {2}, width : {MainWidth}, desc_size : PanelSizes,
   desc_font_size : DescFontSizes, horiz_padding : {1}]

PaintGlobals == [real_font_size : {1}, real_desc_font_size : {2}]

\* The image files a painted text names.
PaintImages ==
  {f \in ImageFiles : f.magic \in {137, 0} /\ f.width \in {1, 3}
                      /\ f.height = 3}

\* The text runs parse_result_line hands to a paint.
PaintRuns ==
  [type : {"DRAW_TEXT"}, modifiers_array : PaintModifierArrays,
   data_length : PaintLengths, advance : PaintAdvances]

NoneHeld ==
  [font_description |-> 0, modifiers_array |-> 0, decode |-> 0, wordexp |-> 0]

\* Lines 29-41: calculate_line_offset.
calculate_line_offset(line) ==
  [x |-> settings.horiz_padding,
   y |-> U32(U32(settings.height * line) + global_real.real_font_size),
   image_y |-> U32(settings.height * line)]

\* Lines 420-427 and 492-500: the allocations that open a paint, the font
\* description in the pango build only.
OpenPaint(h) ==
  [h EXCEPT !.font_description = @ + (IF text_build = "pango" THEN 1 ELSE 0),
            !.modifiers_array = @ + 1]

\* Lines 467-470 and 562-565: pango_font_description_free and free.
ClosePaint(h) ==
  [h EXCEPT !.font_description = @ - (IF text_build = "pango" THEN 1 ELSE 0),
            !.modifiers_array = @ - 1]

\* What one call of draw_image leaves allocated: the words of wordexp (line
\* 358, no wordfree), and for a file that decodes the pixbufs image and resize
\* (lines 237, 247, no g_object_unref) or, in the png build, the surface img
\* and the surface scale_surface made of an oversized one (lines 307, 333, no
\* cairo_surface_destroy).  The GError of a failed load is freed (line 240)
\* and the picture is closed (line 396).
ImageAllocs(h, img, win_size_x, win_size_y) ==
  LET shown == img.exists /\ img.decodes
      bufs == IF ~shown THEN 0
              ELSE IF backend = "gdk"
                THEN IF img.magic \in {137, 255, 47} THEN 2 ELSE 0
              ELSE IF img.magic # 137 THEN 0
              ELSE IF img.width > win_size_x \/ img.height > win_size_y
                THEN 2 ELSE 1
  IN [h EXCEPT !.decode = @ + bufs, !.wordexp = @ + 1]

\* Mutant: the check of lines 555-560 moves the offset back without starting
\* a new line.
WrapCheck_NoNewLine(o) ==
  IF U32(o.x + settings.desc_font_size)
       > U32(settings.width + settings.desc_size)
    THEN [o EXCEPT !.x = settings.width]
    ELSE o

\* Lines 555-560: the check that ends every iteration of draw_desc's loop.
WrapCheck(o) ==
  IF U32(o.x + settings.desc_font_size)
       > U32(settings.width + settings.desc_size)
    THEN [x |-> settings.width,
          y |-> U32(o.y + global_real.real_desc_font_size),
          image_y |-> U32(o.image_y + global_real.real_desc_font_size)]
    ELSE o

\* offset.x += draw_text(..., &offset, ...) of lines 459, 461, 548 and 550:
\* draw_text moves offset.x through the pointer, and the order of that store
\* and the read of offset.x by += is unspecified, so the sum starts from the
\* old offset.x or from the moved one.
TextAdvances(d, width, x) ==
  LET t == draw_text(text_build, d, width, x)
  IN {U32(x + t.ret), U32(t.x + t.ret)}

PaintIdle ==
  /\ global_real = [real_font_size |-> 1, real_desc_font_size |-> 2]
  /\ paint_pc = "idle"
  /\ paint_offset = [x |-> 0, y |-> 0, image_y |-> 0]
  /\ raw = [x |-> 0, y |-> 0, image_y |-> 0]
  /\ ncmd = 0
  /\ held = NoneHeld
  /\ paint_calls = 0

\* Lines 410-434: draw_line up to its loop.
PaintLineBegin ==
  /\ paint_pc = "idle"
  /\ paint_calls < MaxPaints
  /\ \E line \in PaintLines :
       /\ paint_offset' = calculate_line_offset(line)
       /\ raw' = calculate_line_offset(line)
  /\ held' = OpenPaint(held)
  /\ paint_pc' = "draw_line"
  /\ ncmd' = 0
  /\ paint_calls' = paint_calls + 1
  /\ UNCHANGED global_real

\* Lines 435-443, 467-471: parse_result_line has no more to draw (d.data is
\* NULL), the loop breaks and draw_line frees and returns.
PaintLineBreak ==
  /\ paint_pc = "draw_line"
  /\ ncmd < MaxCmds
  /\ held' = ClosePaint(held)
  /\ paint_pc' = "idle"
  /\ UNCHANGED <<global_real, paint_offset, raw, ncmd, paint_calls>>

\* Lines 435-451, 465: a DRAW_LINE or NEW_LINE command, which a row ignores.
PaintLineSkip ==
  /\ paint_pc = "draw_line"
  /\ ncmd < MaxCmds
  /\ ncmd' = ncmd + 1
  /\ UNCHANGED <<global_real, paint_pc, paint_offset, raw, held, paint_calls>>

\* Lines 435-447, 452-454, 465: a DRAW_IMAGE command.
PaintLineImage ==
  /\ paint_pc = "draw_line"
  /\ ncmd < MaxCmds
  /\ \E img \in PaintImages :
       LET win_size_x == U32(settings.width - paint_offset.x)
           win_size_y == settings.height
           fmt == draw_image(backend, img, win_size_x, win_size_y)
           o == [paint_offset EXCEPT !.x = U32(@ + fmt.width)]
       IN /\ paint_offset' = o
          /\ raw' = o
          /\ held' = ImageAllocs(held, img, win_size_x, win_size_y)
  /\ ncmd' = ncmd + 1
  /\ UNCHANGED <<global_real, paint_pc, paint_calls>>

\* Lines 435-447, 455-463, 465: a DRAW_TEXT command.  The PangoLayout of
\* draw_text is released before it returns (line 153).
PaintLineText ==
  /\ paint_pc = "draw_line"
  /\ ncmd < MaxCmds
  /\ \E d \in PaintRuns :
       LET width == U32(settings.width - paint_offset.x)
       IN \E x \in TextAdvances(d, width, paint_offset.x) :
            /\ paint_offset' = [paint_offset EXCEPT !.x = x]
            /\ raw' = [paint_offset EXCEPT !.x = x]
  /\ ncmd' = ncmd + 1
  /\ UNCHANGED <<global_real, paint_pc, held, paint_calls>>

\* Lines 435, 467-471: the text is exhausted, draw_line frees and returns.
PaintLineEnd ==
  /\ paint_pc = "draw_line"
  /\ held' = ClosePaint(held)
  /\ paint_pc' = "idle"
  /\ UNCHANGED <<global_real, paint_offset, raw, ncmd, paint_calls>>

\* Lines 483-506: draw_desc up to its loop.
PaintDescBegin ==
  /\ paint_pc = "idle"
  /\ paint_calls < MaxPaints
  /\ paint_offset' = [x |-> U32(settings.width + 2),
                y |-> global_real.real_desc_font_size, image_y |-> 0]
  /\ raw' = [x |-> U32(settings.width + 2),
             y |-> global_real.real_desc_font_size, image_y |-> 0]
  /\ held' = OpenPaint(held)
  /\ paint_pc' = "draw_desc"
  /\ ncmd' = 0
  /\ paint_calls' = paint_calls + 1
  /\ UNCHANGED global_real

\* Lines 508-528, 554-560: a DRAW_IMAGE command and the check.
PaintDescImage ==
  /\ paint_pc = "draw_desc"
  /\ ncmd < MaxCmds
  /\ \E img \in PaintImages :
       LET desc_height == U32(settings.height * U32(result_count + 1))
           win_size_x ==
             U32(settings.desc_size - U32(paint_offset.x - settings.width))
           win_size_y == U32(desc_height - paint_offset.image_y)
           fmt == draw_image(backend, img, win_size_x, win_size_y)
           image_y == U32(paint_offset.image_y + fmt.height)
           o == [x |-> U32(paint_offset.x + fmt.width), y |-> image_y,
                 image_y |-> image_y]
       IN /\ raw' = o
          /\ paint_offset' = WrapCheck(o)
          /\ held' = ImageAllocs(held, img, win_size_x, win_size_y)
  /\ ncmd' = ncmd + 1
  /\ UNCHANGED <<global_real, paint_pc, paint_calls>>

\* Lines 508-517, 529-538, 554-560: a DRAW_LINE command (a rule) and the
\* check.
PaintDescRule ==
  /\ paint_pc = "draw_desc"
  /\ ncmd < MaxCmds
  /\ LET half == global_real.real_desc_font_size \div 2
         o == [x |-> settings.width,
               y |-> U32(U32(paint_offset.y + half)
                         + global_real.real_desc_font_size),
               image_y |-> U32(paint_offset.image_y
                               + U32(2 * global_real.real_desc_font_size))]
     IN /\ raw' = o
        /\ paint_offset' = WrapCheck(o)
  /\ ncmd' = ncmd + 1
  /\ UNCHANGED <<global_real, paint_pc, held, paint_calls>>

\* Lines 508-517, 539-543, 554-560: a NEW_LINE command and the check.
PaintDescNewLine ==
  /\ paint_pc = "draw_desc"
  /\ ncmd < MaxCmds
  /\ LET o == [x |-> settings.width,
               y |-> U32(paint_offset.y + global_real.real_desc_font_size),
               image_y |-> U32(paint_offset.image_y
                               + global_real.real_desc_font_size)]
     IN /\ raw' = o
        /\ paint_offset' = WrapCheck(o)
  /\ ncmd' = ncmd + 1
  /\ UNCHANGED <<global_real, paint_pc, held, paint_calls>>

\* Lines 508-517, 544-560: a DRAW_TEXT command and the check.
PaintDescText ==
  /\ paint_pc = "draw_desc"
  /\ ncmd < MaxCmds
  /\ \E d \in PaintRuns :
       LET width == U32(U32(settings.width + settings.desc_size)
                        - paint_offset.x)
       IN \E x \in TextAdvances(d, width, paint_offset.x) :
            /\ raw' = [paint_offset EXCEPT !.x = x]
            /\ paint_offset' = WrapCheck([paint_offset EXCEPT !.x = x])
  /\ ncmd' = ncmd + 1
  /\ UNCHANGED <<global_real, paint_pc, held, paint_calls>>

\* Lines 508, 562-566: the text is exhausted, draw_desc frees and returns.
PaintDescEnd ==
  /\ paint_pc = "draw_desc"
  /\ held' = ClosePaint(held)
  /\ paint_pc' = "idle"
  /\ UNCHANGED <<global_real, paint_offset, raw, ncmd, paint_calls>>

(* ------------------------------------------------------ specifications *)

Init ==
  /\ settings \in Settings
  /\ result_count = 0
  /\ result_highlight = 0
  /\ result_offset = 0
  /\ display_results = 0
  /\ calls = <<>>
  /\ op = "init"
  /\ path = NoPath
  /\ FitIdle
  /\ MutexIdle
  /\ TextIdle
  /\ PaintIdle

Next ==
  \/ SetCount /\ UNCHANGED <<fitVars, mutexVars, textVars, paintVars>>
  \/ SetHighlight /\ UNCHANGED <<fitVars, mutexVars, textVars, paintVars>>
  \/ SetOffset /\ UNCHANGED <<fitVars, mutexVars, textVars, paintVars>>
  \/ DrawQueryText /\ UNCHANGED <<fitVars, mutexVars, textVars, paintVars>>
  \/ DrawResultText /\ UNCHANGED <<fitVars, mutexVars, textVars, paintVars>>
  \/ RedrawAll /\ UNCHANGED <<fitVars, mutexVars, textVars, paintVars>>

Spec == Init /\ [][Next]_vars

ScrollIdle ==
  /\ settings = [height |-> 1, max_height |-> 1, width |-> MainWidth,
                 desc_size |-> DescSize, auto_center |-> FALSE]
  /\ result_count = 0
  /\ result_highlight = 0
  /\ result_offset = 0
  /\ display_results = 0
  /\ calls = <<>>
  /\ op = "init"
  /\ path = NoPath

InitFit ==
  /\ backend \in {"gdk", "png"}
  /\ image \in ImageFiles
  /\ win_size \in [x : 0..MaxAvailW, y : 0..MaxAvailH]
  /\ format = NoFormat
  /\ fit_pc = "ready"
  /\ ScrollIdle
  /\ MutexIdle
  /\ TextIdle
  /\ PaintIdle

NextFit == DrawImage

SpecFit == InitFit /\ [][NextFit]_vars

InitMutex ==
  /\ MutexIdle
  /\ ScrollIdle
  /\ FitIdle
  /\ TextIdle
  /\ PaintIdle

Run(t) == Paint(t) /\ UNCHANGED <<scrollVars, fitVars, textVars, paintVars>>

NextMutex ==
  \E t \in Threads :
    \/ StartRedraw(t) /\ UNCHANGED <<scrollVars, fitVars, textVars, paintVars>>
    \/ TypedLineLock(t) /\ UNCHANGED <<scrollVars, fitVars, textVars, paintVars>>
    \/ TypedLineUnlock(t) /\ UNCHANGED <<scrollVars, fitVars, textVars, paintVars>>
    \/ Recompute(t) /\ UNCHANGED <<scrollVars, fitVars, textVars, paintVars>>
    \/ DescLock(t) /\ UNCHANGED <<scrollVars, fitVars, textVars, paintVars>>
    \/ DescToken(t) /\ UNCHANGED <<scrollVars, fitVars, textVars, paintVars>>
    \/ DescUnlock(t) /\ UNCHANGED <<scrollVars, fitVars, textVars, paintVars>>
    \/ LineLock(t) /\ UNCHANGED <<scrollVars, fitVars, textVars, paintVars>>
    \/ LineToken(t) /\ UNCHANGED <<scrollVars, fitVars, textVars, paintVars>>
    \/ LineBreak(t) /\ UNCHANGED <<scrollVars, fitVars, textVars, paintVars>>
    \/ LineUnlock(t) /\ UNCHANGED <<scrollVars, fitVars, textVars, paintVars>>
    \/ Flush(t) /\ UNCHANGED <<scrollVars, fitVars, textVars, paintVars>>

\* A thread that can take a step of its redraw takes one: the scheduler runs
\* every runnable thread.
SpecMutex ==
  InitMutex /\ [][NextMutex]_vars /\ \A t \in Threads : WF_vars(Run(t))

InitText ==
  /\ text_build \in {"pango", "cairo"}
  /\ charac \in TextRuns(MaxModifiers, MaxDataLength, MaxAdvance)
  /\ line_width \in 0..MaxLineWidth
  /\ text_offset \in 0..MaxOffsetX
  /\ text_drawn = NoDrawn
  /\ text_pc = "ready"
  /\ ScrollIdle
  /\ FitIdle
  /\ MutexIdle
  /\ PaintIdle

NextText == DrawText

SpecText == InitText /\ [][NextText]_vars

\* The paints run with the settings, globals and builds of the process, and
\* the highlighted result's count for the panel height.
InitPaint ==
  /\ settings \in PaintSettings
  /\ global_real \in PaintGlobals
  /\ backend \in {"gdk", "png"}
  /\ text_build \in {"pango", "cairo"}
  /\ result_count = 1
  /\ result_highlight = 0
  /\ result_offset = 0
  /\ display_results = 0
  /\ calls = <<>>
  /\ op = "init"
  /\ path = NoPath
  /\ image = [exists |-> FALSE, magic |-> 0, decodes |-> FALSE,
              width |-> 1, height |-> 1]
  /\ win_size = [x |-> 0, y |-> 0]
  /\ format = NoFormat
  /\ fit_pc = "ready"
  /\ charac = NoRun
  /\ line_width = 0
  /\ text_offset = 0
  /\ text_drawn = NoDrawn
  /\ text_pc = "ready"
  /\ paint_pc = "idle"
  /\ paint_offset = [x |-> 0, y |-> 0, image_y |-> 0]
  /\ raw = [x |-> 0, y |-> 0, image_y |-> 0]
  /\ ncmd = 0
  /\ held = NoneHeld
  /\ paint_calls = 0
  /\ MutexIdle

NextPaint ==
  \/ PaintLineBegin /\ UNCHANGED <<scrollVars, fitVars, mutexVars, textVars>>
  \/ PaintLineBreak /\ UNCHANGED <<scrollVars, fitVars, mutexVars, textVars>>
  \/ PaintLineSkip /\ UNCHANGED <<scrollVars, fitVars, mutexVars, textVars>>
  \/ PaintLineImage /\ UNCHANGED <<scrollVars, fitVars, mutexVars, textVars>>
  \/ PaintLineText /\ UNCHANGED <<scrollVars, fitVars, mutexVars, textVars>>
  \/ PaintLineEnd /\ UNCHANGED <<scrollVars, fitVars, mutexVars, textVars>>
  \/ PaintDescBegin /\ UNCHANGED <<scrollVars, fitVars, mutexVars, textVars>>
  \/ PaintDescImage /\ UNCHANGED <<scrollVars, fitVars, mutexVars, textVars>>
  \/ PaintDescRule /\ UNCHANGED <<scrollVars, fitVars, mutexVars, textVars>>
  \/ PaintDescNewLine /\ UNCHANGED <<scrollVars, fitVars, mutexVars, textVars>>
  \/ PaintDescText /\ UNCHANGED <<scrollVars, fitVars, mutexVars, textVars>>
  \/ PaintDescEnd /\ UNCHANGED <<scrollVars, fitVars, mutexVars, textVars>>

SpecPaint == InitPaint /\ [][NextPaint]_vars

(* ================================================================ claims *)

\* A draw_result_text has run and nothing has changed since.
AfterRecompute == op \in {"draw_result_text", "redraw_all"}

\* The positions in `calls` of the calls named c.
CallsOf(c) == {i \in 1..Len(calls) : calls[i].call = c}

\* The window has room for at least one result row (max_height >= 2 * height).
RoomForARow ==
  /\ settings.max_height >= settings.height
  /\ MaxResults(settings) >= 1

\* C1: after the scroll recompute, for count >= 1, the highlighted index lies
\* inside the scroll window: offset <= highlight <= offset + display_count - 1
\* (stated for the configurations whose window has room for a result row).
C1_HighlightInWindow ==
  (AfterRecompute /\ result_count >= 1 /\ RoomForARow)
    => /\ result_offset <= result_highlight
       /\ result_highlight <= result_offset + display_results - 1

\* C2: after the scroll recompute offset + display_count <= count, and every
\* index the row loop painted is below count.
C2_WindowInsideResults ==
  AfterRecompute
    => /\ result_offset + display_results <= result_count
       /\ \A i \in CallsOf("draw_line") : calls[i].index < result_count

\* C2's case: a list longer than the window, scrolled away from the top, whose
\* last painted row is the last record.
C2_Witness ==
  /\ AfterRecompute
  /\ RoomForARow
  /\ result_count > MaxResults(settings)
  /\ result_offset >= 1
  /\ \E i \in CallsOf("draw_line") : calls[i].index = result_count - 1

\* C3: after every scroll recompute display_count <= max_visible_rows (stated
\* for the configurations whose window has room for a result row).
C3_DisplayAtMostMax ==
  (AfterRecompute /\ RoomForARow) => display_results <= MaxResults(settings)

\* C4: after every scroll recompute with count >= 1 the highlight is below
\* count; the recompute sets a highlight >= count to count - 1 and leaves a
\* highlight below count unchanged.
C4_HighlightClamped ==
  /\ []((AfterRecompute /\ result_count >= 1) => result_highlight < result_count)
  /\ [][(op' \in {"draw_result_text", "redraw_all"} /\ result_count >= 1)
          => result_highlight' =
               IF result_highlight >= result_count
                 THEN result_count - 1
                 ELSE result_highlight]_vars

\* C4's case: the recompute found the highlight past the end and clamped it.
C4_Witness ==
  /\ AfterRecompute
  /\ result_count >= 1
  /\ path.clamped
  /\ result_highlight = result_count - 1

\* C5: whenever count <= max_visible_rows the recompute sets offset to 0, by
\* its first arm, whatever the offset and highlight were.
C5_SmallSetResetsOffset ==
  (AfterRecompute /\ result_count <= MaxResults(settings))
    => /\ result_offset = 0
       /\ path.branch = "reset"

\* C5's case: a small result set arrived while the offset of an earlier query
\* was still set, and the recompute moved the offset.
C5_Witness ==
  /\ AfterRecompute
  /\ result_count >= 1
  /\ result_count <= MaxResults(settings)
  /\ path.moved
  /\ result_offset = 0

\* C6: every draw_result_text resizes window and surface, once each, to
\* height min(row_height * (count + 1), max_window_height); the width is main
\* width plus panel width exactly when highlight < count and the highlighted
\* record has a description (and then the panel is painted), the main width
\* alone otherwise.
C6_Resize ==
  AfterRecompute =>
    LET wide ==
          /\ result_highlight < result_count
          /\ \/ path.results.desc = "all"
             \/ path.results.desc = "first" /\ result_highlight = 0
        h == IF settings.height * (result_count + 1) < settings.max_height
               THEN settings.height * (result_count + 1)
               ELSE settings.max_height
        w == IF wide THEN settings.width + settings.desc_size
                     ELSE settings.width
    IN /\ Cardinality(CallsOf("xcb_configure_window_wh")) = 1
       /\ Cardinality(CallsOf("cairo_xcb_surface_set_size")) = 1
       /\ \A i \in CallsOf("xcb_configure_window_wh")
                   \cup CallsOf("cairo_xcb_surface_set_size") :
            calls[i].width = w /\ calls[i].height = h
       /\ (CallsOf("draw_desc") # {}) <=> wide

\* C6's case: 3 results without descriptions and max_visible_rows = 10 give
\* height row_height * 4, the main width, no side panel, offset 0.
C6_Witness ==
  /\ AfterRecompute
  /\ result_count = 3
  /\ MaxResults(settings) = 10
  /\ path.results.desc = "none"
  /\ result_offset = 0
  /\ CallsOf("draw_desc") = {}
  /\ \E i \in CallsOf("xcb_configure_window_wh") :
       calls[i].height = settings.height * 4 /\ calls[i].width = settings.width

\* draw_image has returned for a file that exists, has a first byte the
\* compiled backend accepts, and decodes.
LoadedOk ==
  /\ fit_pc = "done"
  /\ image.exists
  /\ image.decodes
  /\ image.magic \in (IF backend = "gdk" THEN {137, 255, 47} ELSE {137})

FitsAvailable == image.width <= win_size.x /\ image.height <= win_size.y

\* scale * natural_w and scale * natural_h, scale = min(avail_w / natural_w,
\* avail_h / natural_h), as exact fractions num / den.
ScaledW ==
  IF win_size.x * image.height <= win_size.y * image.width
    THEN [num |-> win_size.x, den |-> 1]
    ELSE [num |-> win_size.y * image.width, den |-> image.height]

ScaledH ==
  IF win_size.x * image.height <= win_size.y * image.width
    THEN [num |-> win_size.x * image.height, den |-> image.width]
    ELSE [num |-> win_size.y, den |-> 1]

Floor(f) == f.num \div f.den

\* v is f rounded to an integer (either neighbour, when f is halfway).
IsRounded(v, f) ==
  /\ 2 * v * f.den - 2 * f.num <= f.den
  /\ 2 * f.num - 2 * v * f.den <= f.den

\* C7: for an image that loads and whose natural width and height are both
\* <= the available width and height, draw_image returns the natural size, in
\* both backends.
C7_NaturalSizeKept ==
  (LoadedOk /\ FitsAvailable)
    => format = [width |-> image.width, height |-> image.height]

\* C8 as stated: for an image that exceeds the available rectangle the fitter
\* returns (round(scale * natural_w), round(scale * natural_h)), within the
\* available width and height.
C8_Rounded ==
  (LoadedOk /\ ~FitsAvailable)
    => /\ IsRounded(format.width, ScaledW)
       /\ IsRounded(format.height, ScaledH)
       /\ format.width <= win_size.x
       /\ format.height <= win_size.y

\* C8 amended: for an image that exceeds the available rectangle the fitter
\* returns the single-precision products prop * natural_w and prop * natural_h
\* truncated to integers: each is within one pixel of scale * natural
\* truncated, the target width is <= avail_w and the target height <= avail_h.
C8_Truncated ==
  (LoadedOk /\ ~FitsAvailable)
    => /\ format.width <= win_size.x
       /\ format.height <= win_size.y
       /\ format.width - Floor(ScaledW) \in {-1, 0, 1}
       /\ format.height - Floor(ScaledH) \in {-1, 0, 1}

\* C8's case: an oversized image scaled by the height proportion, whose
\* single-precision product falls just below the exact scaled height.
C8_Witness ==
  /\ LoadedOk
  /\ ~FitsAvailable
  /\ format.height >= 1
  /\ format.height = Floor(ScaledH) - 1

\* C9: a thread is inside a paint operation exactly while it holds the draw
\* mutex, so no two paints overlap; a thread about to lock does not hold the
\* mutex already; every paint that took the mutex releases it, on the early
\* break as on the exhausted text.
C9_DrawMutex ==
  /\ [](\A t \in Threads : (tpc[t] \in PaintPcs) <=> (draw_mutex = t))
  /\ [](\A t, u \in Threads :
          (tpc[t] \in PaintPcs /\ tpc[u] \in PaintPcs) => t = u)
  /\ [](\A t \in Threads : tpc[t] \in LockPcs => draw_mutex # t)
  /\ [][\A t \in Threads :
          (tpc[t] = "line_paint" /\ tpc'[t] # "line_paint")
            => draw_mutex' = 0]_vars
  /\ (draw_mutex # 0) ~> (draw_mutex = 0)

\* C9's case: one thread is painting a row while another waits at the lock of
\* its own paint.
C9_Witness ==
  \E t, u \in Threads :
    /\ t # u
    /\ tpc[t] = "line_paint"
    /\ toks[t] > 0
    /\ draw_mutex = t
    /\ tpc[u] \in LockPcs

\* C10: within one redraw_all the query line (row 0) is the first paint, the
\* k-th result row painted is row k and record offset + k - 1, and the flush
\* that ends the redraw (surface, then connection) comes after the description
\* panel paint and every row paint.
C10_PaintOrder ==
  op = "redraw_all" =>
    LET n == Len(calls)
        rows == CallsOf("draw_line")
        paints == rows \cup CallsOf("draw_desc") \cup CallsOf("draw_typed_line")
    IN /\ n >= 2
       /\ calls[1].call = "draw_typed_line" /\ calls[1].line = 0
       /\ CallsOf("draw_typed_line") = {1}
       /\ Cardinality(rows) = display_results
       /\ \A i \in rows :
            LET k == Cardinality({j \in rows : j <= i}) IN
              /\ calls[i].line = k
              /\ calls[i].index = result_offset + k - 1
       /\ calls[n].call = "xcb_flush"
       /\ calls[n - 1].call = "cairo_surface_flush"
       /\ \A i \in paints : i < n - 1

\* C10's case: a redraw that paints the panel and several rows of a scrolled
\* list.
C10_Witness ==
  /\ op = "redraw_all"
  /\ display_results >= 3
  /\ result_offset >= 1
  /\ CallsOf("draw_desc") # {}

\* C14: the scroll recompute is idempotent: a draw_result_text that runs right
\* after another one, with count and highlight as the first run left them,
\* leaves offset and display_count exactly as the first run set them (stated
\* for the configurations whose window has room for a result row).
C14_RecomputeIdempotent ==
  [][(AfterRecompute /\ RoomForARow
        /\ op' \in {"draw_result_text", "redraw_all"})
       => /\ result_count' = result_count
          /\ result_highlight' = result_highlight
          /\ result_offset' = result_offset
          /\ display_results' = display_results]_vars

\* Some modifier of the run handed to draw_text is m.
HasModifier(m) ==
  \E k \in 1..Len(charac.modifiers_array) : charac.modifiers_array[k] = m

\* C12: a run of rendered extent w drawn at horizontal offset x0 with
\* remaining available width W and a modifier sequence containing CENTER is
\* positioned at x0 + (W - w) / 2, however many CENTERs the sequence holds and
\* whether or not it holds BOLD (stated for the runs that fit, w <= W, and
\* whose stored data_length is the extent the backend measures).
C12_CenterPosition ==
  (/\ text_pc = "drawn"
   /\ HasModifier("CENTER")
   /\ charac.advance = charac.data_length
   /\ charac.data_length <= line_width)
    => text_drawn.x = text_offset + (line_width - charac.data_length) \div 2

\* C11: when a paint call has returned, and so when the next one starts,
\* nothing it allocated is still held: not the font description, not the
\* modifiers array, not a decode buffer of an image it loaded.
C11_AllReleased ==
  paint_pc = "idle"
    => /\ held.font_description = 0
       /\ held.modifiers_array = 0
       /\ held.decode = 0

\* The panel's right edge, and whether an offset passes the check of lines
\* 555-560.
RightEdge == U32(settings.width + settings.desc_size)

PastEdge(o) == U32(o.x + settings.desc_font_size) > RightEdge

\* draw_desc has processed a command and stands before reading the next.
AfterDescCommand == paint_pc = "draw_desc" /\ ncmd >= 1

\* The first half of C13: what the check does to the offset a command left.
WrapsAtEdge ==
  IF PastEdge(raw)
    THEN /\ paint_offset.x = settings.width
         /\ paint_offset.y = U32(raw.y + global_real.real_desc_font_size)
         /\ paint_offset.image_y
              = U32(raw.image_y + global_real.real_desc_font_size)
    ELSE paint_offset = raw

\* C13: in draw_desc, after each command, an offset with x + desc_font_size
\* past the panel's right edge (width + desc_size) is reset to the panel's
\* left edge and both vertical offsets advance by one line height; hence
\* every command after the first starts with x + desc_font_size <= right edge.
C13_NextStartsInside ==
  AfterDescCommand => (WrapsAtEdge /\ ~PastEdge(paint_offset))

\* C13 as the code has it: the reset is as stated, and the next command
\* starts inside the panel when the description font is no wider than the
\* panel (desc_font_size <= desc_size).
C13_NextStartsInsideFittingFont ==
  AfterDescCommand
    => /\ WrapsAtEdge
       /\ settings.desc_font_size <= settings.desc_size
            => ~PastEdge(paint_offset)

\* C13's case: the second command of a description ran past the edge of a
\* panel wider than the font, and the offset was reset.
C13_Witness ==
  /\ paint_pc = "draw_desc"
  /\ ncmd >= 2
  /\ settings.desc_font_size <= settings.desc_size
  /\ PastEdge(raw)
  /\ raw.x > settings.width
  /\ paint_offset.x = settings.width

====
